---- MODULE Spec2Model ----
(***************************************************************************)
(* Model of the scene deployer of decentraland-rust                        *)
(* (scene-deployer/src/lib.rs): build_entity_scene, find_entity, deploy    *)
(* and build_entity_form_data_for_deployment, together with the two remote *)
(* calls deploy awaits.                                                    *)
(*                                                                         *)
(* Bytes (Vec<u8>) are sequences of string tokens, text is a string, a     *)
(* path is a sequence of string pieces ("/" is the separator piece).       *)
(***************************************************************************)
EXTENDS Integers, Sequences, FiniteSets, TLC

VARIABLES
    pc,           \* where the caller is: "idle", "built" (build_entity_scene has
                  \* returned), "rebuilt" (it has returned a second time),
                  \* "assembled" (a form was built on its own), or
                  \* inside deploy: "lookup" / "submit" (at an await), "done"
    entity_id,    \* the EntityId handed to deploy / the form builder
    deploy_data,  \* the Vec<FileData> handed to deploy / the form builder
    auth_chain,   \* the AuthChain handed to deploy / the form builder
    build_in,     \* the arguments of the build_entity_scene call, if any
    scene_files,  \* the answer of scene_entities_for_parcels, once arrived
    form,         \* the multipart form, once assembled (a sequence of parts)
    posted,       \* the forms sent with POST /content/entities, in order
    lookups,      \* the number of lookups sent
    result,       \* what deploy returned
    calls,        \* two deploy calls running at once: for each caller, where
                  \* its call is, its data, the lookup's answer, its result
    remote,       \* the remote authority those two calls talk to: the scene
                  \* entities it has active, the submissions it has received
    client,       \* one call of a ContentClient function: which one, its
                  \* arguments, the request sent, the response, its result
    fs,           \* the local file system download writes to: its
                  \* directories, and the contents of its files
    player,       \* the PlayerComponent and its Transform: current_level,
                  \* level_change_stack, translation
    cameras,      \* the camera entities alive that are not trackers
    trackers,     \* the tracker entities alive: entity, Recorder id, Track target
    smugglers,    \* SharedDataSmuggler: tracking id -> RenderData
    recorders     \* ActiveRecorders: tracking id -> ActiveRecorder

\* the state of the single deploy / build call
deployVars == <<pc, entity_id, deploy_data, auth_chain, build_in, scene_files,
                form, posted, lookups, result>>

raceVars == <<calls, remote>>
clientVars == <<client, fs>>
playerVars == <<player>>
recorderVars == <<cameras, trackers, smugglers, recorders>>

vars == <<pc, entity_id, deploy_data, auth_chain, build_in, scene_files,
          form, posted, lookups, result, calls, remote, client, fs, player,
          cameras, trackers, smugglers, recorders>>

-----------------------------------------------------------------------------
(* Bounds of the model *)

MaxFiles == 2
MaxChain == 2
MaxRemote == 2
MaxLocal == 2

-----------------------------------------------------------------------------
(* Generic helpers *)

SeqsUpTo(S, n) == UNION {[1..k -> S] : k \in 0..n}

RECURSIVE Join(_)
Join(ss) == IF ss = <<>> THEN "" ELSE Head(ss) \o Join(Tail(ss))

RECURSIVE JoinWith(_, _)
JoinWith(ss, sep) ==
    IF ss = <<>> THEN ""
    ELSE IF Len(ss) = 1 THEN Head(ss)
    ELSE Head(ss) \o sep \o JoinWith(Tail(ss), sep)

RECURSIVE Flatten(_)
Flatten(sss) == IF sss = <<>> THEN <<>> ELSE Head(sss) \o Flatten(Tail(sss))

RECURSIVE IndexFrom(_, _, _)
\* least index j >= i with s[j] = x, or 0 when there is none
IndexFrom(s, i, x) ==
    IF i > Len(s) THEN 0
    ELSE IF s[i] = x THEN i
    ELSE IndexFrom(s, i + 1, x)

StartsWithSeq(s, p) == Len(s) >= Len(p) /\ SubSeq(s, 1, Len(p)) = p

EndsWithSeq(s, p) ==
    Len(s) >= Len(p) /\ SubSeq(s, Len(s) - Len(p) + 1, Len(s)) = p

Permutations_(S) == {f \in [1..Cardinality(S) -> S] :
                        \A i, j \in 1..Cardinality(S) : i # j => f[i] # f[j]}

-----------------------------------------------------------------------------
(* Data model *)

\* Parcel(x, y)
ParcelPool == {<<0, 0>>, <<0, 1>>}

\* the JSON form of a Parcel
ParcelToString(parcel) == ToString(parcel[1]) \o "," \o ToString(parcel[2])

\* output.push(format!("{},{}", parcel.0, parcel.1)) for each parcel
parcels_vec_to_strings_vec(parcels) ==
    [i \in 1..Len(parcels) |->
        ToString(parcels[i][1]) \o "," \o ToString(parcels[i][2])]

\* the pointer lists and parcel lists used as inputs
ParcelLists == {<<>>, <<<<0, 0>>>>, <<<<0, 1>>>>,
                <<<<0, 0>>, <<0, 1>>>>, <<<<0, 1>>, <<0, 0>>>>}

PointerLists == {<<>>, <<"0,0">>, <<"0,1">>, <<"0,0", "0,1">>, <<"0,1", "0,0">>,
                 <<"0,0", "0,0">>}

\* Metadata: Option<Metadata>, of which only the Scene variant is inspected
NoMetadata == [tag |-> "none", parcels |-> <<>>]
OtherMetadata == [tag |-> "other", parcels |-> <<>>]
SceneMetadata(parcels) == [tag |-> "scene", parcels |-> parcels]

Metadatas == {NoMetadata, OtherMetadata} \cup {SceneMetadata(p) : p \in ParcelLists}

\* Paths, as pieces
P_scene == <<"scene", ".", "json">>
P_png == <<"a", ".", "png">>
P_txt == <<"b", ".", "txt">>
P_2dcl == <<"2dcl", "/", "scene", ".", "2dcl">>
P_dot2dcl == <<".", "/", "2dcl", "/", "a", ".", "png">>
P_root2dcl == <<"/", "2dcl", "/", "x">>
P_2dclish == <<"2dcl-old", "/", "x">>

PathPool == {P_scene, P_png, P_txt, P_2dcl, P_dot2dcl, P_root2dcl, P_2dclish}

PathStr(path) == Join(path)

RECURSIVE SplitOn(_, _, _)
\* the segments of s between occurrences of sep; cur is the segment being read
SplitOn(s, sep, cur) ==
    IF s = <<>> THEN <<cur>>
    ELSE IF Head(s) = sep THEN <<cur>> \o SplitOn(Tail(s), sep, <<>>)
    ELSE SplitOn(Tail(s), sep, Append(cur, Head(s)))

RECURSIVE KeepNormal(_, _)
\* drops empty segments and "." segments, except a "." that begins the path
KeepNormal(segs, first) ==
    IF segs = <<>> THEN <<>>
    ELSE IF Head(segs) = <<>> THEN KeepNormal(Tail(segs), FALSE)
    ELSE IF Head(segs) = <<".">> /\ ~first THEN KeepNormal(Tail(segs), FALSE)
    ELSE <<Join(Head(segs))>> \o KeepNormal(Tail(segs), FALSE)

\* std::path::Path::components: RootDir is "/", CurDir is "."
Components(path) ==
    IF path = <<>> THEN <<>>
    ELSE IF Head(path) = "/"
         THEN <<"/">> \o KeepNormal(SplitOn(Tail(path), "/", <<>>), FALSE)
         ELSE KeepNormal(SplitOn(path, "/", <<>>), TRUE)

\* PathBuf::starts_with(base): whole components only
PathStartsWith(path, base) == StartsWithSeq(Components(path), Components(base))

\* IsTransient comparing the text of the path, not its components
IsTransient_TextPrefix(filename) ==
    \/ filename # <<>> /\ Head(filename) \in {"2dcl", "2dcl-old"}
    \/ PathStartsWith(filename, <<".", "/", "2dcl">>)
    \/ PathStartsWith(filename, <<"/", "2dcl">>)

\* the three prefixes build_entity_scene drops
IsTransient(filename) ==
    \/ PathStartsWith(filename, <<".", "/", "2dcl">>)
    \/ PathStartsWith(filename, <<"/", "2dcl">>)
    \/ PathStartsWith(filename, <<"2dcl">>)

\* MimeFor without the test of the extension
MimeFor_AlwaysBinary(path) == "application/octet-stream"

\* String::ends_with(".png") on the path string
MimeFor(path) ==
    IF EndsWithSeq(path, <<".", "png">>) THEN "image/png"
    ELSE "application/octet-stream"

\* SystemTime::now() in milliseconds: any of these
Timestamps == {1, 2}

EntityTypes == {"profile", "scene", "wearable", "emote"}

ContentFile(filename, cid) == [filename |-> filename, cid |-> cid]

MkEntity(id, pointers, timestamp, content, metadata) ==
    [id |-> id, version |-> "v3", kind |-> "scene", pointers |-> pointers,
     timestamp |-> timestamp, content |-> content, metadata |-> metadata]

NoEntity == MkEntity("", <<>>, 0, <<>>, NoMetadata)

-----------------------------------------------------------------------------
(* serde_json: Entity <-> bytes *)

MetadataTokens(m) ==
    IF m.tag = "none" THEN <<"null">>
    ELSE IF m.tag = "other" THEN <<"{", "other", "}">>
    ELSE <<"{", "scene", "parcels", "[">>
         \o [i \in 1..Len(m.parcels) |-> ParcelToString(m.parcels[i])]
         \o <<"]", "}">>

ContentTokens(content) ==
    Flatten([i \in 1..Len(content) |->
                <<PathStr(content[i].filename), content[i].cid>>])

\* serde_json::to_string(&entity)
SerializeEntity(e) ==
    <<"{", "id", e.id, "version", e.version, "type", e.kind, "pointers", "[">>
    \o e.pointers
    \o <<"]", "timestamp", ToString(e.timestamp), "content", "[">>
    \o ContentTokens(e.content)
    \o <<"]", "metadata">> \o MetadataTokens(e.metadata) \o <<"}">>

KnownTimes == Timestamps \cup {0}

ParseMetadata(t) ==
    IF t = <<"null">> THEN [ok |-> TRUE, metadata |-> NoMetadata]
    ELSE IF t = <<"{", "other", "}">> THEN [ok |-> TRUE, metadata |-> OtherMetadata]
    ELSE IF /\ Len(t) >= 6
            /\ SubSeq(t, 1, 4) = <<"{", "scene", "parcels", "[">>
            /\ SubSeq(t, Len(t) - 1, Len(t)) = <<"]", "}">>
            /\ \A i \in 5..(Len(t) - 2) :
                  \E p \in ParcelPool : ParcelToString(p) = t[i]
         THEN [ok |-> TRUE,
               metadata |-> SceneMetadata(
                   [i \in 1..(Len(t) - 6) |->
                       CHOOSE p \in ParcelPool : ParcelToString(p) = t[i + 4]])]
         ELSE [ok |-> FALSE, metadata |-> NoMetadata]

\* serde_json::from_slice::<Entity>(bytes)
ParseEntity(b) ==
    LET j == IndexFrom(b, 10, "]")
        k == IF j = 0 THEN 0 ELSE IndexFrom(b, j + 5, "]")
        n == Len(b)
        shape ==
            /\ n >= 17
            /\ b[1] = "{" /\ b[2] = "id" /\ b[4] = "version" /\ b[6] = "type"
            /\ b[7] \in EntityTypes
            /\ b[8] = "pointers" /\ b[9] = "["
            /\ j > 0 /\ k > 0 /\ k + 2 < n
            /\ b[j + 1] = "timestamp"
            /\ \E t \in KnownTimes : ToString(t) = b[j + 2]
            /\ b[j + 3] = "content" /\ b[j + 4] = "["
            /\ (k - (j + 5)) % 2 = 0
            /\ \A i \in 0..(((k - (j + 5)) \div 2) - 1) :
                  \E p \in PathPool : PathStr(p) = b[j + 5 + 2 * i]
            /\ b[k + 1] = "metadata"
            /\ b[n] = "}"
            /\ ParseMetadata(SubSeq(b, k + 2, n - 1)).ok
    IN  IF shape
        THEN [ok |-> TRUE,
              entity |->
                [id |-> b[3], version |-> b[5], kind |-> b[7],
                 pointers |-> SubSeq(b, 10, j - 1),
                 timestamp |-> CHOOSE t \in KnownTimes : ToString(t) = b[j + 2],
                 content |->
                    [i \in 1..((k - (j + 5)) \div 2) |->
                        ContentFile(
                            CHOOSE p \in PathPool : PathStr(p) = b[j + 3 + 2 * i],
                            b[j + 4 + 2 * i])],
                 metadata |-> ParseMetadata(SubSeq(b, k + 2, n - 1)).metadata]]
        ELSE [ok |-> FALSE, entity |-> NoEntity]

-----------------------------------------------------------------------------
(* Content addressing *)

\* Cid::new_v1(0x55, sha2-256(content)).to_string(): one identifier per byte
\* string, distinct byte strings giving distinct identifiers
get_cid(content) == "bafk<" \o JoinWith(content, " ") \o ">"

FileData(cid, bytes, mime_str) == [cid |-> cid, bytes |-> bytes, mime_str |-> mime_str]

-----------------------------------------------------------------------------
(* build_entity_scene *)

RemoveAt(s, i) == SubSeq(s, 1, i - 1) \o SubSeq(s, i + 1, Len(s))

RECURSIVE RemoveTransient(_, _)
\* for i in (0..content.len()).rev() { if transient { content.remove(i) } }
RemoveTransient(content, i) ==
    IF i = 0 THEN content
    ELSE IF IsTransient(content[i].filename)
         THEN RemoveTransient(RemoveAt(content, i), i - 1)
         ELSE RemoveTransient(content, i - 1)

\* the ContentFile pushed for each local file, in the map's iteration order
LocalContent(files, order) ==
    [i \in 1..Len(order) |-> ContentFile(order[i], get_cid(files[order[i]]))]

\* the FileData pushed for each local file, in the map's iteration order
LocalFilesData(files, order) ==
    [i \in 1..Len(order) |->
        FileData(get_cid(files[order[i]]), files[order[i]], MimeFor(order[i]))]

\* the manifest as constructed, its id still empty
BuiltEntity(pointers, files, entity, order, timestamp) ==
    MkEntity("", pointers, timestamp,
             RemoveTransient(entity.content, Len(entity.content))
                 \o LocalContent(files, order),
             entity.metadata)

\* build_entity_scene taking the id from the bytes serialized after the id
\* was stored in the manifest
build_entity_scene_HashAfterSet(pointers, files, entity, order, timestamp) ==
    LET built == BuiltEntity(pointers, files, entity, order, timestamp)
        entity_file == SerializeEntity(built)
        first == get_cid(entity_file)
        id == get_cid(SerializeEntity([built EXCEPT !.id = first]))
    IN  [files_data |->
            Append(LocalFilesData(files, order),
                   FileData(id, entity_file, "application/octet-stream")),
         entity_id |-> id]

\* build_entity_scene pushing the bytes serialized after the id was stored
build_entity_scene_IdInPayload(pointers, files, entity, order, timestamp) ==
    LET built == BuiltEntity(pointers, files, entity, order, timestamp)
        entity_file == SerializeEntity(built)
        id == get_cid(entity_file)
    IN  [files_data |->
            Append(LocalFilesData(files, order),
                   FileData(id, SerializeEntity([built EXCEPT !.id = id]),
                            "application/octet-stream")),
         entity_id |-> id]

\* order is the order in which the HashMap yields its entries;
\* timestamp is the clock reading
build_entity_scene(pointers, files, entity, order, timestamp) ==
    LET built == BuiltEntity(pointers, files, entity, order, timestamp)
        entity_file == SerializeEntity(built)
        id == get_cid(entity_file)
    IN  [files_data |->
            Append(LocalFilesData(files, order),
                   FileData(id, entity_file, "application/octet-stream")),
         entity_id |-> id]

-----------------------------------------------------------------------------
(* find_entity *)

RECURSIVE find_entity_AnyMime(_)
\* find_entity without the test of the MIME type
find_entity_AnyMime(files_data) ==
    IF files_data = <<>> THEN [ok |-> FALSE, entity |-> NoEntity]
    ELSE IF ParseEntity(Head(files_data).bytes).ok
         THEN ParseEntity(Head(files_data).bytes)
         ELSE find_entity_AnyMime(Tail(files_data))

RECURSIVE find_entity(_)
find_entity(files_data) ==
    IF files_data = <<>> THEN [ok |-> FALSE, entity |-> NoEntity]
    ELSE IF /\ Head(files_data).mime_str = "application/octet-stream"
            /\ ParseEntity(Head(files_data).bytes).ok
         THEN ParseEntity(Head(files_data).bytes)
         ELSE find_entity(Tail(files_data))

-----------------------------------------------------------------------------
(* The auth chain and the multipart form *)

LinkKinds == {"Signer", "EcdsaPersonalEphemeral", "EcdsaPersonalSignedEntity",
              "EcdsaEip1654Ephemeral", "EcdsaEip1654SignedEntity"}

\* auth_link.kind().to_string()
KindName(auth_link) ==
    CASE auth_link.kind = "Signer" -> "SIGNER"
      [] auth_link.kind = "EcdsaPersonalEphemeral" -> "ECDSA_EPHEMERAL"
      [] auth_link.kind = "EcdsaPersonalSignedEntity" -> "ECDSA_SIGNED_ENTITY"
      [] auth_link.kind = "EcdsaEip1654Ephemeral" -> "ECDSA_EIP_1654_EPHEMERAL"
      [] auth_link.kind = "EcdsaEip1654SignedEntity" -> "ECDSA_EIP_1654_SIGNED_ENTITY"

AuthLink(kind, payload, signature) ==
    [kind |-> kind, payload |-> payload, signature |-> signature]

\* one link of each variant
AuthLinks == {AuthLink(k, "payload-" \o k, "sig-" \o k) : k \in LinkKinds}

\* reqwest::multipart::Part::text(value)
TextPart(name, value) ==
    [name |-> name, body |-> <<value>>, file_name |-> "", mime |-> ""]

\* Part::bytes(file.bytes).file_name(file.cid).mime_str(&file.mime_str)
FilePart(file) ==
    [name |-> file.cid, body |-> file.bytes, file_name |-> file.cid,
     mime |-> file.mime_str]

AuthFieldName(index, field) ==
    "authChain[" \o ToString(index) \o "][" \o field \o "]"

PayloadAndSignature(index, auth_link) ==
    <<TextPart(AuthFieldName(index, "payload"), auth_link.payload),
      TextPart(AuthFieldName(index, "signature"), auth_link.signature)>>

\* LinkParts with the signature of one variant forgotten
LinkParts_NoSignature(index, auth_link) ==
    <<TextPart(AuthFieldName(index, "type"), KindName(auth_link))>>
    \o IF auth_link.kind = "EcdsaEip1654SignedEntity"
       THEN <<TextPart(AuthFieldName(index, "payload"), auth_link.payload)>>
       ELSE PayloadAndSignature(index, auth_link)

\* the body of the loop over the chain, for the link at `index`
LinkParts(index, auth_link) ==
    <<TextPart(AuthFieldName(index, "type"), KindName(auth_link))>>
    \o CASE auth_link.kind = "Signer" -> PayloadAndSignature(index, auth_link)
         [] auth_link.kind = "EcdsaPersonalEphemeral" ->
                PayloadAndSignature(index, auth_link)
         [] auth_link.kind = "EcdsaPersonalSignedEntity" ->
                PayloadAndSignature(index, auth_link)
         [] auth_link.kind = "EcdsaEip1654Ephemeral" ->
                PayloadAndSignature(index, auth_link)
         [] auth_link.kind = "EcdsaEip1654SignedEntity" ->
                PayloadAndSignature(index, auth_link)

\* (0..).zip(auth_chain.iter())
AuthParts(chain) ==
    Flatten([i \in 1..Len(chain) |-> LinkParts(i - 1, chain[i])])

\* FileParts in the opposite order
FileParts_Reversed(files_data) ==
    [i \in 1..Len(files_data) |-> FilePart(files_data[Len(files_data) + 1 - i])]

FileParts(files_data) == [i \in 1..Len(files_data) |-> FilePart(files_data[i])]

build_entity_form_data_for_deployment(id, files_data, chain) ==
    <<TextPart("entityId", id)>> \o AuthParts(chain) \o FileParts(files_data)

-----------------------------------------------------------------------------
(* Inputs *)

OctetStream == "application/octet-stream"

\* manifests a caller may hand to deploy
Entities == {MkEntity("", p, 1, <<>>, m) : p \in PointerLists, m \in Metadatas}

RawBytes == {<<"raw1">>, <<"raw2">>}

\* the files a caller may put around (or instead of) the manifest of e
FilePool(e) ==
    {FileData(get_cid(SerializeEntity(e)), SerializeEntity(e), OctetStream),
     FileData(get_cid(SerializeEntity(e)), SerializeEntity(e), "image/png"),
     FileData(get_cid(<<"raw1">>), <<"raw1">>, OctetStream),
     FileData(get_cid(<<"raw2">>), <<"raw2">>, "image/png")}

RawFilePool ==
    {FileData(get_cid(<<"raw1">>), <<"raw1">>, OctetStream),
     FileData(get_cid(<<"raw1">>), <<"raw1">>, "image/png"),
     FileData(get_cid(<<"raw2">>), <<"raw2">>, "image/png")}

\* chains handed to deploy: the prefixes of a chain that cycles through
\* the variants
KindOrder == <<"Signer", "EcdsaPersonalEphemeral", "EcdsaPersonalSignedEntity",
               "EcdsaEip1654Ephemeral", "EcdsaEip1654SignedEntity">>

SampleLink(i) ==
    LET k == KindOrder[((i - 1) % Len(KindOrder)) + 1]
    IN  AuthLink(k, "payload-" \o k, "sig-" \o k)

DeployChains == {[i \in 1..n |-> SampleLink(i)] : n \in 0..MaxChain}

\* previously published manifests handed to build_entity_scene
PrevEntities ==
    {NoEntity,
     MkEntity("old1", <<"0,0">>, 1,
              <<ContentFile(P_scene, "cid-scene"), ContentFile(P_2dcl, "cid-2dcl")>>,
              SceneMetadata(<<<<0, 0>>>>)),
     MkEntity("old2", <<"0,0", "0,1">>, 1,
              <<ContentFile(P_dot2dcl, "cid-a"), ContentFile(P_2dclish, "cid-x"),
                ContentFile(P_root2dcl, "cid-r")>>,
              SceneMetadata(<<<<0, 0>>, <<0, 1>>>>)),
     MkEntity("old3", <<"0,1">>, 1,
              <<ContentFile(P_png, get_cid(<<"raw1">>))>>,
              OtherMetadata)}

LocalPaths == {P_png, P_txt, P_2dcl}

\* HashMap<String, Vec<u8>> of at most MaxLocal local files
LocalFileMaps ==
    UNION {[D -> RawBytes] : D \in {X \in SUBSET LocalPaths : Cardinality(X) <= MaxLocal}}

\* what the remote authority may answer to the lookup
RemotePointerLists == {<<"0,0">>, <<"0,0", "0,1">>, <<"0,1", "0,0">>}

SceneFile(pointers) == [pointers |-> pointers]

LookupResponses ==
    SeqsUpTo({SceneFile(p) : p \in RemotePointerLists}, MaxRemote)

-----------------------------------------------------------------------------
(* Results *)

NoResult == [tag |-> "none", found |-> <<>>, expected |-> <<>>]
OkResult == [tag |-> "Ok", found |-> <<>>, expected |-> <<>>]
RequestError == [tag |-> "RequestError", found |-> <<>>, expected |-> <<>>]
MissingSceneEntity == [tag |-> "MissingSceneEntity", found |-> <<>>, expected |-> <<>>]

InvalidPointers(parcels_found, expected_parcels) ==
    [tag |-> "InvalidPointers", found |-> parcels_found, expected |-> expected_parcels]

\* MetadataError with its two fields exchanged
MetadataError_Swapped(entity) ==
    InvalidPointers(parcels_vec_to_strings_vec(entity.metadata.parcels),
                    entity.pointers)

\* the error of the check of the manifest's pointers against its own metadata
MetadataError(entity) ==
    InvalidPointers(entity.pointers,
                    parcels_vec_to_strings_vec(entity.metadata.parcels))

\* LookupError with its two fields exchanged
LookupError_Swapped(files, entity) ==
    InvalidPointers(files[1].pointers, entity.pointers)

\* the error of the check against the answer of the lookup
LookupError(files, entity) ==
    InvalidPointers(entity.pointers, files[1].pointers)

\* the answer of the lookup, once it has arrived
NoAnswer == [returned |-> FALSE, files |-> <<>>]
Answer(files) == [returned |-> TRUE, files |-> files]

-----------------------------------------------------------------------------
(* The state machine *)

NoBuild == [built |-> FALSE, pointers |-> <<>>, files |-> <<>>, entity |-> NoEntity,
            order |-> <<>>, timestamp |-> 0]

\* no player spawned, no camera, no tracker, nothing recorded
NoPlayer == [current_level |-> 0, level_change_stack |-> <<>>,
             translation |-> "origin"]
NoRecording ==
    /\ cameras = {}
    /\ trackers = {}
    /\ smugglers = <<>>
    /\ recorders = <<>>

\* a file system with nothing in it
EmptyFs == [dirs |-> {}, files |-> <<>>]

\* no concurrent callers, no ContentClient call
NoCalls == <<>>
NoRemote == [active |-> <<>>, posted |-> <<>>]
NoClientCall == [op |-> "none", args |-> <<>>, request |-> <<>>,
                 response |-> [ok |-> FALSE, status |-> 0, body |-> <<>>],
                 result |-> [tag |-> "none", value |-> <<>>]]

Init ==
    /\ pc = "idle"
    /\ entity_id = ""
    /\ deploy_data = <<>>
    /\ auth_chain = <<>>
    /\ build_in = NoBuild
    /\ scene_files = NoAnswer
    /\ form = <<>>
    /\ posted = <<>>
    /\ lookups = 0
    /\ result = NoResult
    /\ calls = NoCalls
    /\ remote = NoRemote
    /\ client = NoClientCall
    /\ fs = EmptyFs
    /\ player = NoPlayer
    /\ NoRecording

\* build_entity_scene(pointers, files, entity), its outputs kept for deploy
BuildEntityScene ==
    /\ pc = "idle"
    /\ \E pointers \in PointerLists, files \in LocalFileMaps,
          entity \in PrevEntities, timestamp \in Timestamps :
       \E order \in Permutations_(DOMAIN files) :
          LET out == build_entity_scene(pointers, files, entity, order, timestamp)
          IN  /\ build_in' = [built |-> TRUE, pointers |-> pointers, files |-> files,
                              entity |-> entity, order |-> order,
                              timestamp |-> timestamp]
              /\ deploy_data' = out.files_data
              /\ entity_id' = out.entity_id
    /\ pc' = "built"
    /\ UNCHANGED <<auth_chain, scene_files, form, posted, lookups, result>>

\* build_entity_scene called again with the same pointers and the same local
\* files, the manifest of the first build being the previous entity
RebuildEntityScene ==
    /\ pc = "built"
    /\ \E timestamp \in Timestamps :
       \E order \in Permutations_(DOMAIN build_in.files) :
          LET previous == [ParseEntity(deploy_data[Len(deploy_data)].bytes).entity
                              EXCEPT !.id = entity_id]
              out == build_entity_scene(build_in.pointers, build_in.files,
                                        previous, order, timestamp)
          IN  /\ build_in' = [build_in EXCEPT !.entity = previous,
                                              !.order = order,
                                              !.timestamp = timestamp]
              /\ deploy_data' = out.files_data
              /\ entity_id' = out.entity_id
    /\ pc' = "rebuilt"
    /\ UNCHANGED <<auth_chain, scene_files, form, posted, lookups, result>>

\* build_entity_form_data_for_deployment called on its own
AssembleForm ==
    /\ pc = "idle"
    /\ \E id \in {"entity-1"}, files_data \in SeqsUpTo(RawFilePool, MaxFiles),
          chain \in SeqsUpTo(AuthLinks, MaxChain) :
          /\ entity_id' = id
          /\ deploy_data' = files_data
          /\ auth_chain' = chain
          /\ form' = build_entity_form_data_for_deployment(id, files_data, chain)
    /\ pc' = "assembled"
    /\ UNCHANGED <<build_in, scene_files, posted, lookups, result>>

\* Submit sending the form a second time
Submit_Twice(id, files_data, chain) ==
    /\ form' = build_entity_form_data_for_deployment(id, files_data, chain)
    /\ posted' = Append(Append(posted, form'), form')
    /\ pc' = "submit"
    /\ result' = result

\* the tail of deploy: assemble the form and issue POST /content/entities
Submit(id, files_data, chain) ==
    /\ form' = build_entity_form_data_for_deployment(id, files_data, chain)
    /\ posted' = Append(posted, form')
    /\ pc' = "submit"
    /\ result' = result

\* DeployBody making the lookup for every manifest it finds
DeployBody_AlwaysLookup(id, files_data, chain) ==
    LET found == find_entity(files_data)
    IN  /\ entity_id' = id
        /\ deploy_data' = files_data
        /\ auth_chain' = chain
        /\ IF ~found.ok
           THEN /\ result' = MissingSceneEntity
                /\ pc' = "done"
                /\ UNCHANGED <<form, posted, lookups>>
           ELSE /\ lookups' = lookups + 1
                /\ pc' = "lookup"
                /\ UNCHANGED <<form, posted, result>>
        /\ UNCHANGED <<build_in, scene_files>>

\* deploy, from its entry to its first await or return
DeployBody(id, files_data, chain) ==
    LET found == find_entity(files_data)
        entity == found.entity
        expected_parcels == parcels_vec_to_strings_vec(entity.metadata.parcels)
    IN  /\ entity_id' = id
        /\ deploy_data' = files_data
        /\ auth_chain' = chain
        /\ IF ~found.ok
           THEN /\ result' = MissingSceneEntity
                /\ pc' = "done"
                /\ UNCHANGED <<form, posted, lookups>>
           ELSE IF entity.metadata.tag = "scene"
           THEN IF expected_parcels # entity.pointers
                THEN /\ result' = MetadataError(entity)
                     /\ pc' = "done"
                     /\ UNCHANGED <<form, posted, lookups>>
                ELSE /\ lookups' = lookups + 1
                     /\ pc' = "lookup"
                     /\ UNCHANGED <<form, posted, result>>
           ELSE /\ Submit(id, files_data, chain)
                /\ UNCHANGED lookups
        /\ UNCHANGED <<build_in, scene_files>>

\* deploy called with data of the caller's own making
Deploy ==
    /\ pc = "idle"
    /\ \E e \in Entities :
       \E files_data \in SeqsUpTo(FilePool(e), MaxFiles), chain \in DeployChains :
          DeployBody(get_cid(SerializeEntity(e)), files_data, chain)

\* deploy called with what build_entity_scene returned
DeployBuilt ==
    /\ pc = "built"
    /\ \E chain \in DeployChains : DeployBody(entity_id, deploy_data, chain)

\* LookupConflicts with the count of returned entities left out
LookupConflicts_FirstOnly(files, entity) ==
    files # <<>> /\ files[1].pointers # entity.pointers

\* LookupConflicts rejecting every claimed pointer
LookupConflicts_AnyClaim(files, entity) == files # <<>>

\* the check deploy makes on the answer of the lookup
LookupConflicts(files, entity) ==
    files # <<>> /\ (Len(files) > 1 \/ files[1].pointers # entity.pointers)

\* scene_entities_for_parcels returns Ok(files): deploy runs on to its next
\* await or return
LookupReturns ==
    /\ pc = "lookup"
    /\ \E files \in LookupResponses :
          LET entity == find_entity(deploy_data).entity
          IN  /\ scene_files' = Answer(files)
              /\ IF LookupConflicts(files, entity)
                 THEN /\ result' = LookupError(files, entity)
                      /\ pc' = "done"
                      /\ UNCHANGED <<form, posted>>
                 ELSE Submit(entity_id, deploy_data, auth_chain)
    /\ UNCHANGED <<entity_id, deploy_data, auth_chain, build_in, lookups>>

\* scene_entities_for_parcels returns Err: `?` hands it to the caller
LookupFails ==
    /\ pc = "lookup"
    /\ result' = RequestError
    /\ pc' = "done"
    /\ UNCHANGED <<entity_id, deploy_data, auth_chain, build_in, scene_files,
                   form, posted, lookups>>

\* deploy_entity returns: its result is deploy's result
SubmitReturns ==
    /\ pc = "submit"
    /\ \E r \in {OkResult, RequestError} : result' = r
    /\ pc' = "done"
    /\ UNCHANGED <<entity_id, deploy_data, auth_chain, build_in, scene_files,
                   form, posted, lookups>>

Next ==
    \/ BuildEntityScene /\ UNCHANGED <<raceVars, clientVars, playerVars, recorderVars>>
    \/ RebuildEntityScene /\ UNCHANGED <<raceVars, clientVars, playerVars, recorderVars>>
    \/ AssembleForm /\ UNCHANGED <<raceVars, clientVars, playerVars, recorderVars>>
    \/ Deploy /\ UNCHANGED <<raceVars, clientVars, playerVars, recorderVars>>
    \/ DeployBuilt /\ UNCHANGED <<raceVars, clientVars, playerVars, recorderVars>>
    \/ LookupReturns /\ UNCHANGED <<raceVars, clientVars, playerVars, recorderVars>>
    \/ LookupFails /\ UNCHANGED <<raceVars, clientVars, playerVars, recorderVars>>
    \/ SubmitReturns /\ UNCHANGED <<raceVars, clientVars, playerVars, recorderVars>>

Spec == Init /\ [][Next]_vars

-----------------------------------------------------------------------------
(* build_entity_scene on local files that are themselves manifests *)

\* manifests a scene directory may hold as ordinary files
StrayEntities ==
    {MkEntity("", <<"0,0">>, 1, <<>>, NoMetadata),
     MkEntity("", <<"0,0">>, 1, <<>>, SceneMetadata(<<<<0, 0>>>>))}

\* local files, some of which hold the bytes of a manifest
StrayFileMaps ==
    UNION {[D -> RawBytes \cup {SerializeEntity(e) : e \in StrayEntities}] :
              D \in SUBSET {P_png, P_txt}}

\* build_entity_scene(pointers, files, entity) on such files
BuildWithStrayEntity ==
    /\ pc = "idle"
    /\ \E pointers \in PointerLists, files \in StrayFileMaps,
          entity \in {e \in PrevEntities : e.id \in {"", "old1"}},
          timestamp \in Timestamps :
       \E order \in Permutations_(DOMAIN files) :
          LET out == build_entity_scene(pointers, files, entity, order, timestamp)
          IN  /\ build_in' = [built |-> TRUE, pointers |-> pointers, files |-> files,
                              entity |-> entity, order |-> order,
                              timestamp |-> timestamp]
              /\ deploy_data' = out.files_data
              /\ entity_id' = out.entity_id
    /\ pc' = "built"
    /\ UNCHANGED <<auth_chain, scene_files, form, posted, lookups, result>>

StrayNext ==
    \/ BuildWithStrayEntity /\ UNCHANGED <<raceVars, clientVars, playerVars, recorderVars>>
    \/ DeployBuilt /\ UNCHANGED <<raceVars, clientVars, playerVars, recorderVars>>
    \/ LookupReturns /\ UNCHANGED <<raceVars, clientVars, playerVars, recorderVars>>
    \/ LookupFails /\ UNCHANGED <<raceVars, clientVars, playerVars, recorderVars>>
    \/ SubmitReturns /\ UNCHANGED <<raceVars, clientVars, playerVars, recorderVars>>

SpecStray == Init /\ [][StrayNext]_vars

-----------------------------------------------------------------------------
(* Two deploy calls at once, against one remote authority *)

Callers == {"A", "B"}

\* manifests the two callers deploy: consistent Scene manifests that claim
\* parcel 0,0
RaceEntities ==
    {MkEntity("", <<"0,0">>, t, <<>>, SceneMetadata(<<<<0, 0>>>>)) :
        t \in Timestamps}
    \cup {MkEntity("", <<"0,0", "0,1">>, t, <<>>,
                   SceneMetadata(<<<<0, 0>>, <<0, 1>>>>)) : t \in Timestamps}

\* a call that has not begun
NoCall == [pc |-> "idle", entity_id |-> "", deploy_data |-> <<>>,
           scene_files |-> NoAnswer, posts |-> 0, result |-> NoResult]

\* what the authority has active at the start: nothing, or one scene on 0,0
RaceInit ==
    /\ pc = "idle"
    /\ entity_id = ""
    /\ deploy_data = <<>>
    /\ auth_chain = <<>>
    /\ build_in = NoBuild
    /\ scene_files = NoAnswer
    /\ form = <<>>
    /\ posted = <<>>
    /\ lookups = 0
    /\ result = NoResult
    /\ client = NoClientCall
    /\ fs = EmptyFs
    /\ player = NoPlayer
    /\ NoRecording
    /\ calls = [c \in Callers |-> NoCall]
    /\ \E active \in {<<>>, <<SceneFile(<<"0,0">>)>>} :
          remote = [active |-> active, posted |-> <<>>]

\* the active scene entities the authority reports for a lookup: every entity
\* of the model claims parcel 0,0, so all of them overlap the pointers asked for
ActiveOn(pointers) == remote.active

\* the authority takes a submission: the entity becomes the active one on its
\* pointers
Accept(c, entity) ==
    [active |-> <<SceneFile(entity.pointers)>>,
     posted |-> Append(remote.posted, c)]

\* caller c enters deploy and runs to its first await or return
RaceDeploy(c) ==
    /\ calls[c].pc = "idle"
    /\ \E e \in RaceEntities :
          LET files_data == <<FileData(get_cid(SerializeEntity(e)),
                                       SerializeEntity(e), OctetStream)>>
              found == find_entity(files_data)
              entity == found.entity
              expected_parcels ==
                  parcels_vec_to_strings_vec(entity.metadata.parcels)
              begun == [calls[c] EXCEPT
                           !.entity_id = get_cid(SerializeEntity(e)),
                           !.deploy_data = files_data]
          IN  calls' = [calls EXCEPT ![c] =
                 IF ~found.ok
                 THEN [begun EXCEPT !.pc = "done", !.result = MissingSceneEntity]
                 ELSE IF /\ entity.metadata.tag = "scene"
                         /\ expected_parcels # entity.pointers
                 THEN [begun EXCEPT !.pc = "done",
                                    !.result = MetadataError(entity)]
                 ELSE [begun EXCEPT !.pc = "lookup"]]
    /\ UNCHANGED remote

\* the lookup of caller c is answered from what the authority has active at
\* that moment; the call runs on to the POST or to its return
RaceLookupReturns(c) ==
    /\ calls[c].pc = "lookup"
    /\ LET entity == find_entity(calls[c].deploy_data).entity
           files == ActiveOn(entity.pointers)
       IN  calls' = [calls EXCEPT ![c] =
              IF LookupConflicts(files, entity)
              THEN [@ EXCEPT !.scene_files = Answer(files), !.pc = "done",
                             !.result = LookupError(files, entity)]
              ELSE [@ EXCEPT !.scene_files = Answer(files), !.pc = "submit",
                             !.posts = @ + 1]]
    /\ UNCHANGED remote

\* the lookup of caller c fails
RaceLookupFails(c) ==
    /\ calls[c].pc = "lookup"
    /\ calls' = [calls EXCEPT ![c] = [@ EXCEPT !.pc = "done",
                                               !.result = RequestError]]
    /\ UNCHANGED remote

\* the POST of caller c reaches the authority, which takes it
RaceSubmitReturns(c) ==
    /\ calls[c].pc = "submit"
    /\ remote' = Accept(c, find_entity(calls[c].deploy_data).entity)
    /\ calls' = [calls EXCEPT ![c] = [@ EXCEPT !.pc = "done",
                                               !.result = OkResult]]

\* the POST of caller c fails
RaceSubmitFails(c) ==
    /\ calls[c].pc = "submit"
    /\ calls' = [calls EXCEPT ![c] = [@ EXCEPT !.pc = "done",
                                               !.result = RequestError]]
    /\ UNCHANGED remote

RaceNext ==
    \/ \E c \in Callers : RaceDeploy(c) /\ UNCHANGED <<deployVars, clientVars, playerVars, recorderVars>>
    \/ \E c \in Callers : RaceLookupReturns(c) /\ UNCHANGED <<deployVars, clientVars, playerVars, recorderVars>>
    \/ \E c \in Callers : RaceLookupFails(c) /\ UNCHANGED <<deployVars, clientVars, playerVars, recorderVars>>
    \/ \E c \in Callers : RaceSubmitReturns(c) /\ UNCHANGED <<deployVars, clientVars, playerVars, recorderVars>>
    \/ \E c \in Callers : RaceSubmitFails(c) /\ UNCHANGED <<deployVars, clientVars, playerVars, recorderVars>>

SpecRace == RaceInit /\ [][RaceNext]_vars

-----------------------------------------------------------------------------
(* ContentClient: content_file_exists, content_files_exists,
   snapshot_entities *)

MaxCids == 2
MaxLines == 3

StatusOK == 200

\* the statuses a content server answers a request with
Statuses == {StatusOK, 204, 404, 500}

\* what Server hands back for a request: an error when no response arrived,
\* else the response
NoResponse == [ok |-> FALSE, status |-> 0, body |-> <<>>]
Response(status, body) == [ok |-> TRUE, status |-> status, body |-> body]

\* Result<T>
Ok(value) == [tag |-> "Ok", value |-> value]
Err(error) == [tag |-> "Err", value |-> error]

CidPool == {"a-cid", "another-cid"}

\* content_file_exists taking every 2xx status for existence
content_file_exists_AnySuccess(response) ==
    IF ~response.ok THEN Err("NetworkError")
    ELSE Ok(response.status \in 200..299)

\* the function on what raw_head handed back
content_file_exists(response) ==
    IF ~response.ok THEN Err("NetworkError")
    ELSE Ok(response.status = StatusOK)

ContentFileExists ==
    /\ client.op = "none"
    /\ \E content \in CidPool :
       \E response \in {NoResponse} \cup {Response(st, <<>>) : st \in Statuses} :
          client' = [op |-> "content_file_exists",
                     args |-> <<content>>,
                     request |-> <<"HEAD", "/content/contents/", content>>,
                     response |-> response,
                     result |-> content_file_exists(response)]

RECURSIVE CidsQuery(_, _)
\* the query string after the first n cids, in pieces
CidsQuery(content, n) ==
    IF n = 0 THEN <<>>
    ELSE CidsQuery(content, n - 1)
            \o (IF content[n] # content[1] THEN <<"&">> ELSE <<>>)
            \o <<"cid=", content[n]>>

ContentFileStatus(id, available) == [id |-> id, available |-> available]

\* the cid parameters a server reads from a query string
QueryCids(query) ==
    LET params == SplitOn(query, "&", <<>>)
    IN  {Join(Tail(params[i])) :
            i \in {j \in 1..Len(params) :
                      params[j] # <<>> /\ Head(params[j]) = "cid="}}

\* the bodies a server holding the contents `stored` may answer with: one
\* object per cid asked for, in an order of its choosing
AvailableBodies(query, stored) ==
    LET entries == {[cid |-> c, available |-> c \in stored] : c \in QueryCids(query)}
    IN  Permutations_(entries)

\* content_files_exists handing the entries back in the order of the request
content_files_exists_InRequestOrder(content, response) ==
    IF ~response.ok THEN Err("NetworkError")
    ELSE Ok([i \in 1..Len(content) |->
               ContentFileStatus(content[i],
                   \E j \in 1..Len(response.body) :
                       /\ response.body[j].cid = content[i]
                       /\ response.body[j].available)])

\* the function on what Server::get handed back: the body, deserialized
content_files_exists(content, response) ==
    IF ~response.ok THEN Err("NetworkError")
    ELSE Ok([i \in 1..Len(response.body) |->
               ContentFileStatus(response.body[i].cid,
                                 response.body[i].available)])

ContentFilesExists ==
    /\ client.op = "none"
    /\ \E content \in SeqsUpTo(CidPool, MaxCids), stored \in SUBSET CidPool :
          LET query == CidsQuery(content, Len(content))
          IN  \E response \in {NoResponse}
                    \cup {Response(StatusOK, b) : b \in AvailableBodies(query, stored)} :
                 client' = [op |-> "content_files_exists",
                            args |-> content,
                            request |-> <<"GET", "/content/available-content/?">>
                                            \o query,
                            response |-> response,
                            result |-> content_files_exists(content, response)]

\* the Snapshot handed to snapshot_entities: one content hash per entity type
SampleSnapshot == [scene |-> "hash-scene", profile |-> "hash-profile",
                   wearable |-> "hash-wearable", emote |-> "hash-emote"]

\* the hash snapshot_entities asks for
SnapshotHash(entity_type, snapshot) ==
    CASE entity_type = "scene" -> snapshot.scene
      [] entity_type = "profile" -> snapshot.profile
      [] entity_type = "wearable" -> snapshot.wearable
      [] entity_type = "emote" -> snapshot.emote

\* lines a snapshot document is made of, character by character: two records,
\* a record behind a blank, an empty line, a header, a record cut short
LinePool ==
    {<<"{", "e1", "}">>, <<"{", "e2", "}">>, <<" ", "{", "e1", "}">>, <<>>,
     <<"#", "snapshot">>, <<"{", "e1">>}

RECURSIVE JoinLines(_)
\* the text of a document: each line followed by a line feed
JoinLines(lines) ==
    IF lines = <<>> THEN <<>>
    ELSE Head(lines) \o <<"\n">> \o JoinLines(Tail(lines))

\* the documents a server may hold under a snapshot hash, the last line with
\* or without its line feed
SnapshotTexts ==
    LET texts == {JoinLines(lines) : lines \in SeqsUpTo(LinePool, MaxLines)}
    IN  texts \cup {SubSeq(t, 1, Len(t) - 1) : t \in texts \ {<<>>}}

\* str::lines: the pieces between line feeds, without a last empty piece
Lines(text) ==
    LET pieces == SplitOn(text, "\n", <<>>)
    IN  IF pieces[Len(pieces)] = <<>>
        THEN SubSeq(pieces, 1, Len(pieces) - 1)
        ELSE pieces

\* str::find: the 0-based index of the first ch in line, -1 standing for None
Find(line, ch) == IndexFrom(line, 1, ch) - 1

RECURSIVE TrimStart(_)
TrimStart(line) ==
    IF line # <<>> /\ Head(line) = " " THEN TrimStart(Tail(line)) ELSE line

RECURSIVE TrimEnd(_)
TrimEnd(line) ==
    IF line # <<>> /\ line[Len(line)] = " "
    THEN TrimEnd(SubSeq(line, 1, Len(line) - 1))
    ELSE line

\* serde_json::from_str::<EntitySnapshot<T>>: blanks around the value are
\* skipped; the value has to be one whole object
FromStr(line) ==
    LET t == TrimEnd(TrimStart(line))
    IN  IF Len(t) = 3 /\ t[1] = "{" /\ t[3] = "}" /\ t[2] \notin {"{", "}", " "}
        THEN [ok |-> TRUE, snapshot |-> [entity_id |-> t[2]]]
        ELSE [ok |-> FALSE, snapshot |-> [entity_id |-> ""]]

\* StartsRecord looking at the first character that is not a blank
StartsRecord_Trimmed(line) == Find(TrimStart(line), "{") = 0

\* the test snapshot_entities makes on a line
StartsRecord(line) == Find(line, "{") = 0

RECURSIVE SnapshotLoop(_, _)
\* the loop over the lines: `?` ends the call at the first line that does
\* not parse
SnapshotLoop(lines, records) ==
    IF lines = <<>> THEN Ok(records)
    ELSE IF StartsRecord(Head(lines))
         THEN IF FromStr(Head(lines)).ok
              THEN SnapshotLoop(Tail(lines),
                                Append(records, FromStr(Head(lines)).snapshot))
              ELSE Err("JsonError")
         ELSE SnapshotLoop(Tail(lines), records)

\* the function on what raw_get and text() handed back
snapshot_entities(response) ==
    IF ~response.ok THEN Err("NetworkError")
    ELSE SnapshotLoop(Lines(response.body), <<>>)

SnapshotEntities ==
    /\ client.op = "none"
    /\ \E entity_type \in EntityTypes :
       \E response \in {NoResponse}
             \cup {Response(StatusOK, text) : text \in SnapshotTexts} :
          client' = [op |-> "snapshot_entities",
                     args |-> <<entity_type>>,
                     request |-> <<"GET", "/content/contents/",
                                   SnapshotHash(entity_type, SampleSnapshot)>>,
                     response |-> response,
                     result |-> snapshot_entities(response)]

\* destinations of a download: a bare file name, a file in a directory, a
\* file in a directory of a directory (a path is the sequence of its names)
Destinations == {<<"file">>, <<"out", "file">>, <<"out", "dir", "file">>}

\* Path::parent: the path without its last name
Parent(filename) == SubSeq(filename, 1, Len(filename) - 1)

\* the directories create_dir_all(path) makes sure of, up to the n-th
Ancestors(path, n) == {SubSeq(path, 1, j) : j \in 1..n}

\* File::create and the writes that follow: the file holds exactly bytes
WriteFile(fsys, filename, bytes) ==
    [fsys EXCEPT !.files =
        [f \in DOMAIN fsys.files \cup {filename} |->
            IF f = filename THEN bytes ELSE fsys.files[f]]]

\* the file systems a download may start from
InitialFs ==
    {EmptyFs,
     [dirs |-> {<<"out">>}, files |-> <<>>],
     WriteFile([dirs |-> {<<"out">>, <<"out", "dir">>}, files |-> <<>>],
               <<"out", "dir", "file">>, <<"old">>),
     WriteFile(EmptyFs, <<"file">>, <<"old">>)}

\* the bodies a content server answers GET /content/contents/<id> with
DownloadBodies == {<<"b1", "b2">>, <<"e1">>}

\* where a download may fail once the response has arrived
Failures == {"none", "create_dir_all", "create", "bytes", "write_all"}

\* download writing the file without creating the parent directories
download_NoCreateDirAll(fsys, filename, response, failure, progress) ==
    IF ~response.ok THEN [fs |-> fsys, result |-> Err("NetworkError")]
    ELSE [fs |-> WriteFile(fsys, filename, response.body),
          result |-> Ok("unit")]

\* download, from the file system fsys; failure is the step that fails, if
\* any, and progress how far that step got before it failed
download(fsys, filename, response, failure, progress) ==
    IF ~response.ok THEN [fs |-> fsys, result |-> Err("NetworkError")]
    ELSE
      LET parent == Parent(filename)
          made == [fsys EXCEPT !.dirs = @ \cup Ancestors(parent, Len(parent))]
      IN  CASE failure = "create_dir_all" ->
                 [fs |-> [fsys EXCEPT !.dirs = @ \cup Ancestors(parent, progress)],
                  result |-> Err("IoError")]
            [] failure = "create" ->
                 [fs |-> made, result |-> Err("IoError")]
            [] failure = "bytes" ->
                 [fs |-> WriteFile(made, filename, <<>>),
                  result |-> Err("NetworkError")]
            [] failure = "write_all" ->
                 [fs |-> WriteFile(made, filename,
                                   SubSeq(response.body, 1, progress)),
                  result |-> Err("IoError")]
            [] failure = "none" ->
                 [fs |-> WriteFile(made, filename, response.body),
                  result |-> Ok("unit")]

Download ==
    /\ client.op = "none"
    /\ \E content_id \in CidPool, filename \in Destinations,
          failure \in Failures, progress \in 0..1 :
       \E response \in {NoResponse}
             \cup {Response(st, b) : st \in {StatusOK, 404}, b \in DownloadBodies} :
          /\ failure = "create_dir_all" => progress < Len(Parent(filename))
          /\ failure = "write_all" => progress < Len(response.body)
          /\ LET out == download(fs, filename, response, failure, progress)
             IN  /\ fs' = out.fs
                 /\ client' = [op |-> "download",
                               args |-> [content_id |-> content_id,
                                         filename |-> filename,
                                         before |-> fs],
                               request |-> <<"GET", "/content/contents/", content_id>>,
                               response |-> response,
                               result |-> out.result]

ClientInit ==
    /\ pc = "idle"
    /\ entity_id = ""
    /\ deploy_data = <<>>
    /\ auth_chain = <<>>
    /\ build_in = NoBuild
    /\ scene_files = NoAnswer
    /\ form = <<>>
    /\ posted = <<>>
    /\ lookups = 0
    /\ result = NoResult
    /\ calls = NoCalls
    /\ remote = NoRemote
    /\ client = NoClientCall
    /\ fs \in InitialFs
    /\ player = NoPlayer
    /\ NoRecording

ClientNext ==
    \/ ContentFileExists /\ UNCHANGED <<deployVars, raceVars, fs, playerVars, recorderVars>>
    \/ ContentFilesExists /\ UNCHANGED <<deployVars, raceVars, fs, playerVars, recorderVars>>
    \/ SnapshotEntities /\ UNCHANGED <<deployVars, raceVars, fs, playerVars, recorderVars>>
    \/ Download /\ UNCHANGED <<deployVars, raceVars, playerVars, recorderVars>>

SpecClient == ClientInit /\ [][ClientNext]_vars

-----------------------------------------------------------------------------
(* The player: change_level, exit_level, teleport_command *)

MaxStack == 3

Levels == {0, 1, 2}

\* places a Transform may be at: where the player is spawned, the spawn
\* points of level changes, the spawn point of a parcel
SpawnPoints == {"stairs", "cellar"}

\* the LevelChange components of a scene
LevelChanges == [level : Levels, spawn_point : SpawnPoints]

LevelChangeStackData(location, level_id) ==
    [location |-> location, level_id |-> level_id]

\* change_level: remember where the player was, move to the level, and forget
\* everything when that level is 0
change_level(p, level_change) ==
    LET pushed == Append(p.level_change_stack,
                         LevelChangeStackData(p.translation, p.current_level))
    IN  [current_level |-> level_change.level,
         level_change_stack |-> IF level_change.level = 0 THEN <<>> ELSE pushed,
         translation |-> level_change.spawn_point]

\* exit_level: back to where the last level change was made, if any
exit_level(p) ==
    IF p.level_change_stack = <<>> THEN p
    ELSE LET data == p.level_change_stack[Len(p.level_change_stack)]
         IN  [current_level |-> data.level_id,
              level_change_stack |->
                  SubSeq(p.level_change_stack, 1, Len(p.level_change_stack) - 1),
              translation |-> data.location]

\* str::parse::<i16> on the texts a console user may type
ParsesAsI16(text) == text \in {"0", "-7", "150"}
CommandTexts == {"0", "-7", "150", "40000", "x"}

\* teleport_command on a jump command with these two arguments
teleport_command(p, parcel_x, parcel_y) ==
    IF ParsesAsI16(parcel_x) /\ ParsesAsI16(parcel_y)
    THEN [p EXCEPT !.current_level = 0, !.translation = "parcel"]
    ELSE p

PlayerInit ==
    /\ pc = "idle"
    /\ entity_id = ""
    /\ deploy_data = <<>>
    /\ auth_chain = <<>>
    /\ build_in = NoBuild
    /\ scene_files = NoAnswer
    /\ form = <<>>
    /\ posted = <<>>
    /\ lookups = 0
    /\ result = NoResult
    /\ calls = NoCalls
    /\ remote = NoRemote
    /\ client = NoClientCall
    /\ fs = EmptyFs
    /\ NoRecording
    /\ player = NoPlayer

\* one level change of try_change_level
ChangeLevel ==
    /\ Len(player.level_change_stack) < MaxStack
    /\ \E level_change \in LevelChanges :
          player' = change_level(player, level_change)

ExitLevel == player' = exit_level(player)

TeleportCommand ==
    \E parcel_x, parcel_y \in CommandTexts :
        player' = teleport_command(player, parcel_x, parcel_y)

PlayerNext ==
    \/ ChangeLevel /\ UNCHANGED <<deployVars, raceVars, clientVars, recorderVars>>
    \/ ExitLevel /\ UNCHANGED <<deployVars, raceVars, clientVars, recorderVars>>
    \/ TeleportCommand /\ UNCHANGED <<deployVars, raceVars, clientVars, recorderVars>>

SpecPlayer == PlayerInit /\ [][PlayerNext]_vars

-----------------------------------------------------------------------------
(* The recorders: start_tracking_orthographic_camera, clean_cameras,
   move_camera_buffers (bevy_spritesheet_maker/src/management.rs) *)

MaxTrackers == 2

CameraPool == {"cam-a", "cam-b"}
TrackingIds == {1, 2}
\* Duration values, in ticks
Lengths == {2, 3}
Deltas == {1, 2, 4}

None == "none"
Image == "image"

StartTrackingCamera == [cam_entity : CameraPool, tracking_id : TrackingIds,
                        length : Lengths]

RenderData(last_frame) == [last_frame |-> last_frame]
ActiveRecorder(target_duration, frames, tracker) ==
    [target_duration |-> target_duration, frames |-> frames,
     tracker |-> tracker]
TextureFrame(texture, frame_time) ==
    [texture |-> texture, frame_time |-> frame_time]

\* HashMap::insert and HashMap::remove
Insert(map, key, value) ==
    [k \in DOMAIN map \cup {key} |-> IF k = key THEN value ELSE map[k]]
Without(map, keys) == [k \in DOMAIN map \ keys |-> map[k]]

RECURSIVE Duration(_)
\* the fold over recorder.frames: the sum of their frame_time
Duration(frames) ==
    IF frames = <<>> THEN 0
    ELSE Head(frames).frame_time + Duration(Tail(frames))

\* the trackers whose target is not a camera any more
Orphans(ts, cams) == {t \in ts : t.target \notin cams}

clean_cameras_KeepRecorder(ts, cams, smug, recs) ==
    LET ids == {t.id : t \in Orphans(ts, cams)}
    IN  [trackers |-> ts \ Orphans(ts, cams),
         smugglers |-> Without(smug, ids),
         recorders |-> recs]

\* clean_cameras: every tracker whose target is gone is despawned and its
\* id removed from both maps
clean_cameras(ts, cams, smug, recs) ==
    LET ids == {t.id : t \in Orphans(ts, cams)}
    IN  [trackers |-> ts \ Orphans(ts, cams),
         smugglers |-> Without(smug, ids),
         recorders |-> Without(recs, ids)]

\* the entity the next spawn gets
NewEntity(ts) ==
    CHOOSE e \in 1..(Cardinality(ts) + 1) : \A t \in ts : t.entity # e

\* start_tracking_orthographic_camera on one event
start_tracking_orthographic_camera(ts, cams, smug, recs, event) ==
    IF event.cam_entity \in cams
    THEN [trackers |-> ts \cup {[entity |-> NewEntity(ts),
                                 id |-> event.tracking_id,
                                 target |-> event.cam_entity]},
          smugglers |-> Insert(smug, event.tracking_id, RenderData(None)),
          recorders |-> Insert(recs, event.tracking_id,
                               ActiveRecorder(event.length, <<>>,
                                              NewEntity(ts)))]
    ELSE [trackers |-> ts, smugglers |-> smug, recorders |-> recs]

RECURSIVE DropExcess(_, _, _)
\* the while loop: frames are popped from the front while the budget is
\* exceeded and a frame is left
DropExcess(frames, next_duration, target_duration) ==
    IF next_duration > target_duration /\ frames # <<>>
    THEN DropExcess(Tail(frames), next_duration - Head(frames).frame_time,
                    target_duration)
    ELSE frames

\* the closure given to and_modify
PushFrame(recorder, texture, dt) ==
    [recorder EXCEPT !.frames =
        Append(DropExcess(recorder.frames, Duration(recorder.frames) + dt,
                          recorder.target_duration),
               TextureFrame(texture, dt))]

\* the smugglers move_camera_buffers takes a frame from
Moved(smug, recs) ==
    {id \in DOMAIN smug : smug[id].last_frame # None /\ id \in DOMAIN recs}

move_camera_buffers(smug, recs, dt) ==
    [smugglers |-> [id \in DOMAIN smug |->
                       IF id \in Moved(smug, recs) THEN RenderData(None)
                       ELSE smug[id]],
     recorders |-> [id \in DOMAIN recs |->
                       IF id \in Moved(smug, recs)
                       THEN PushFrame(recs[id], smug[id].last_frame, dt)
                       ELSE recs[id]]]

RecorderInit ==
    /\ pc = "idle"
    /\ entity_id = ""
    /\ deploy_data = <<>>
    /\ auth_chain = <<>>
    /\ build_in = NoBuild
    /\ scene_files = NoAnswer
    /\ form = <<>>
    /\ posted = <<>>
    /\ lookups = 0
    /\ result = NoResult
    /\ calls = NoCalls
    /\ remote = NoRemote
    /\ client = NoClientCall
    /\ fs = EmptyFs
    /\ player = NoPlayer
    /\ cameras = CameraPool
    /\ trackers = {}
    /\ smugglers = <<>>
    /\ recorders = <<>>

\* a tracked camera is despawned
DespawnCamera ==
    /\ \E c \in cameras : cameras' = cameras \ {c}
    /\ UNCHANGED <<trackers, smugglers, recorders>>

StartTrackingOrthographicCamera ==
    /\ Cardinality(trackers) < MaxTrackers
    /\ \E event \in StartTrackingCamera :
          LET after == start_tracking_orthographic_camera(
                           trackers, cameras, smugglers, recorders, event)
          IN  /\ trackers' = after.trackers
              /\ smugglers' = after.smugglers
              /\ recorders' = after.recorders
    /\ UNCHANGED cameras

CleanCameras ==
    LET after == clean_cameras(trackers, cameras, smugglers, recorders)
    IN  /\ trackers' = after.trackers
        /\ smugglers' = after.smugglers
        /\ recorders' = after.recorders
        /\ UNCHANGED cameras

\* the render node leaves the image of a tracker in its RenderData
RenderFrame ==
    /\ \E id \in DOMAIN smugglers :
          smugglers' = [smugglers EXCEPT ![id] = RenderData(Image)]
    /\ UNCHANGED <<cameras, trackers, recorders>>

MoveCameraBuffers ==
    /\ \E dt \in Deltas :
          LET after == move_camera_buffers(smugglers, recorders, dt)
          IN  /\ smugglers' = after.smugglers
              /\ recorders' = after.recorders
    /\ UNCHANGED <<cameras, trackers>>

RecorderNext ==
    \/ DespawnCamera /\ UNCHANGED <<deployVars, raceVars, clientVars, playerVars>>
    \/ StartTrackingOrthographicCamera
          /\ UNCHANGED <<deployVars, raceVars, clientVars, playerVars>>
    \/ CleanCameras /\ UNCHANGED <<deployVars, raceVars, clientVars, playerVars>>
    \/ RenderFrame /\ UNCHANGED <<deployVars, raceVars, clientVars, playerVars>>
    \/ MoveCameraBuffers
          /\ UNCHANGED <<deployVars, raceVars, clientVars, playerVars>>

SpecRecorder == RecorderInit /\ [][RecorderNext]_vars

-----------------------------------------------------------------------------
(* Properties *)

\* deploy has been entered
DeployCalled == pc \in {"lookup", "submit", "done"}

\* a form has been assembled
Assembled == form # <<>>

\* the manifest deploy validates
Candidate == find_entity(deploy_data).entity

\* the lookup has answered with these entities
Returned == scene_files.returned
Remote == scene_files.files

NothingSubmitted == posted = <<>> /\ form = <<>>

\* C1: when the lookup answers with a non-empty list that holds more than one
\* entity, or one entity whose pointers differ from the candidate's, deploy
\* fails with InvalidPointers and nothing is submitted.
C1_RemoteConflictRejected ==
    (/\ Returned
     /\ Remote # <<>>
     /\ (Len(Remote) > 1 \/ Remote[1].pointers # Candidate.pointers))
    => (/\ pc = "done"
        /\ result.tag = "InvalidPointers"
        /\ NothingSubmitted)

\* C1: the candidate claims {0,0}, the remote entity claims {0,0},{0,1}
C1_Witness ==
    /\ Returned
    /\ Candidate.pointers = <<"0,0">>
    /\ Remote = <<SceneFile(<<"0,0", "0,1">>)>>
    /\ result.tag = "InvalidPointers"

\* C2: when the lookup answers with the empty list, or with exactly one entity
\* whose pointers equal the candidate's, the validator returns no error and the
\* envelope is submitted: one POST, of the form assembled from the call's
\* arguments.
C2_NoConflictSubmits ==
    (/\ Returned
     /\ \/ Remote = <<>>
        \/ Len(Remote) = 1 /\ Remote[1].pointers = Candidate.pointers)
    => (/\ pc \in {"submit", "done"}
        /\ result.tag \notin {"InvalidPointers", "MissingSceneEntity"}
        /\ Len(posted) = 1
        /\ posted[1] = form
        /\ Assembled)

\* C2: an exact redeployment onto pointers one entity already claims
C2_Witness ==
    /\ Returned
    /\ Len(Remote) = 1
    /\ Remote[1].pointers = Candidate.pointers
    /\ Len(Candidate.pointers) = 2
    /\ result.tag = "Ok"

\* the "x,y" form of the parcels of the model, written out
ParcelText(parcel) ==
    CASE parcel = <<0, 0>> -> "0,0"
      [] parcel = <<0, 1>> -> "0,1"

StringForm(parcels) == [i \in 1..Len(parcels) |-> ParcelText(parcels[i])]

\* some file of deploy_data is a manifest
HasManifest ==
    \E i \in 1..Len(deploy_data) :
        /\ deploy_data[i].mime_str = "application/octet-stream"
        /\ ParseEntity(deploy_data[i].bytes).ok

\* the manifest carries Scene metadata
SceneCandidate == HasManifest /\ Candidate.metadata.tag = "scene"

\* C3: when the manifest's Scene metadata lists parcels whose "x,y" form differs
\* from the manifest's pointers, deploy fails with InvalidPointers whose found
\* is the manifest's pointers and whose expected is the metadata's parcel list;
\* no lookup is made and nothing is submitted.
C3_MetadataMismatchRejected ==
    (/\ DeployCalled
     /\ SceneCandidate
     /\ StringForm(Candidate.metadata.parcels) # Candidate.pointers)
    => (/\ pc = "done"
        /\ result.tag = "InvalidPointers"
        /\ result.found = Candidate.pointers
        /\ result.expected = StringForm(Candidate.metadata.parcels)
        /\ lookups = 0
        /\ NothingSubmitted)

\* C3: pointers {0,0} against metadata declaring {0,1}
C3_Witness ==
    /\ DeployCalled
    /\ SceneCandidate
    /\ Candidate.pointers = <<"0,0">>
    /\ Candidate.metadata.parcels = <<<<0, 1>>>>
    /\ result.tag = "InvalidPointers"

\* C4, as claimed: a rejection by the lookup's answer carries found = the
\* remote entity's pointers and expected = the candidate's pointers.
C4_Original ==
    (Returned /\ result.tag = "InvalidPointers")
    => (/\ result.found = Remote[1].pointers
        /\ result.expected = Candidate.pointers)

\* C4, amended: a rejection by the lookup's answer carries found = the
\* candidate's pointers and expected = the pointers of the first entity the
\* lookup returned.
C4_LookupErrorFields ==
    (Returned /\ result.tag = "InvalidPointers")
    => (/\ result.found = Candidate.pointers
        /\ result.expected = Remote[1].pointers)

\* C4: a rejection in which the two pointer lists differ
C4_Witness ==
    /\ Returned
    /\ result.tag = "InvalidPointers"
    /\ Len(Remote) = 1
    /\ Remote[1].pointers # Candidate.pointers

Count(s, x) == Cardinality({i \in 1..Len(s) : s[i] = x})

\* t is a permutation of s
IsPermutation(s, t) ==
    /\ Len(s) = Len(t)
    /\ \A i \in 1..Len(s) : Count(s, s[i]) = Count(t, s[i])

\* C5: the outcome of the validation depends only on the pointers as a set,
\* not on their order. Identical lists pass both checks, so a manifest whose
\* pointers are a permutation of its metadata's parcels is not rejected by the
\* metadata check, and a single remote entity whose pointers are a permutation
\* of the candidate's is not a conflict.
C5_OrderIndependent ==
    /\ (/\ DeployCalled
        /\ SceneCandidate
        /\ IsPermutation(Candidate.pointers, StringForm(Candidate.metadata.parcels)))
       => ~(result.tag = "InvalidPointers" /\ ~Returned)
    /\ (/\ Returned
        /\ Len(Remote) = 1
        /\ IsPermutation(Remote[1].pointers, Candidate.pointers))
       => result.tag # "InvalidPointers"

\* C6: when no file of deploy_data is a manifest (an application/octet-stream
\* part that parses as an Entity), deploy fails with MissingSceneEntity, makes
\* no lookup and submits nothing.
C6_NoManifestFails ==
    (DeployCalled /\ ~HasManifest)
    => (/\ pc = "done"
        /\ result = MissingSceneEntity
        /\ lookups = 0
        /\ NothingSubmitted)

\* C6: the only file that parses as an Entity is not application/octet-stream
C6_Witness ==
    /\ DeployCalled
    /\ ~HasManifest
    /\ \E i \in 1..Len(deploy_data) : ParseEntity(deploy_data[i].bytes).ok
    /\ result.tag = "MissingSceneEntity"

\* C7: a deployment whose auth chain has no link is refused: no envelope is
\* produced, nothing is submitted, and the call does not succeed.
C7_EmptyChainRefused ==
    (DeployCalled /\ auth_chain = <<>>)
    => (/\ NothingSubmitted
        /\ result.tag # "Ok")

\* the decimal text of the indices of the model, written out
IndexText(i) ==
    CASE i = 0 -> "0" [] i = 1 -> "1" [] i = 2 -> "2" [] i = 3 -> "3" [] i = 4 -> "4"

AuthName(i, field) == "authChain[" \o IndexText(i) \o "][" \o field \o "]"

AuthNames == {AuthName(i, f) : i \in 0..4, f \in {"type", "payload", "signature"}}

Text(name, value) == [name |-> name, body |-> <<value>>, file_name |-> "", mime |-> ""]

\* C8: for a chain of n links the form holds, for every index i in 0..n-1 in
\* chain order and whatever the variant of the link, exactly the three fields
\* authChain[i][type] (the kind name), authChain[i][payload] and
\* authChain[i][signature]; no other part bears an auth field name.
C8_AuthFieldsExact ==
    Assembled =>
        LET n == Len(auth_chain)
        IN  /\ Len(form) = 1 + 3 * n + Len(deploy_data)
            /\ \A i \in 0..(n - 1) :
                  /\ form[2 + 3 * i] =
                        Text(AuthName(i, "type"), KindName(auth_chain[i + 1]))
                  /\ form[3 + 3 * i] =
                        Text(AuthName(i, "payload"), auth_chain[i + 1].payload)
                  /\ form[4 + 3 * i] =
                        Text(AuthName(i, "signature"), auth_chain[i + 1].signature)
            /\ \A j \in 1..Len(form) :
                  (j < 2 \/ j > 1 + 3 * n) => form[j].name \notin AuthNames

\* C8: a chain of two links of different variants has been encoded
C8_Witness ==
    /\ Assembled
    /\ Len(auth_chain) = 2
    /\ auth_chain[1].kind = "Signer"
    /\ auth_chain[2].kind = "EcdsaEip1654SignedEntity"
    /\ Len(form) >= 7

\* C9: the envelope is one text part entityId holding the entity id, then the
\* auth-chain fields, then one binary part per FileData in input order, named by
\* the FileData's cid and carrying its MIME type and bytes; nothing else.
C9_EnvelopeLayout ==
    Assembled =>
        LET n == Len(auth_chain)
        IN  /\ Len(form) = 1 + 3 * n + Len(deploy_data)
            /\ form[1] = Text("entityId", entity_id)
            /\ \A j \in 2..(1 + 3 * n) :
                  /\ form[j].name \in AuthNames
                  /\ form[j].file_name = ""
                  /\ form[j].mime = ""
            /\ \A i \in 1..Len(deploy_data) :
                  /\ form[1 + 3 * n + i].name = deploy_data[i].cid
                  /\ form[1 + 3 * n + i].body = deploy_data[i].bytes
                  /\ form[1 + 3 * n + i].mime = deploy_data[i].mime_str
                  /\ form[1 + 3 * n + i].file_name = deploy_data[i].cid

\* C9: an envelope of a non-empty chain and two different files
C9_Witness ==
    /\ Assembled
    /\ Len(auth_chain) >= 1
    /\ Len(deploy_data) = 2
    /\ deploy_data[1].cid # deploy_data[2].cid
    /\ deploy_data[1].mime_str # deploy_data[2].mime_str

\* C10: the part names of an envelope assembled from build_entity_scene's
\* output are unique; local files with identical bytes give one binary part.
C10_PartNamesUnique ==
    (build_in.built /\ Assembled)
    => \A i, j \in 1..Len(form) : i # j => form[i].name # form[j].name

\* the FileData build_entity_scene pushed last, and the manifest in its bytes
ManifestFile == deploy_data[Len(deploy_data)]
Published == ParseEntity(ManifestFile.bytes)

\* the manifest of the build with its id field empty, put together from the
\* arguments of the call
EmptyIdManifest ==
    [id |-> "", version |-> "v3", kind |-> "scene",
     pointers |-> build_in.pointers, timestamp |-> build_in.timestamp,
     content |-> Published.entity.content,
     metadata |-> build_in.entity.metadata]

\* C11: the id build_entity_scene returns is the content id of the manifest
\* serialized with its id field empty; it is computed once, and keeps that
\* value for as long as the build's output is in use.
C11_IdOfEmptyIdBytes ==
    build_in.built =>
        /\ Published.ok
        /\ entity_id = get_cid(SerializeEntity(EmptyIdManifest))
        /\ entity_id # get_cid(SerializeEntity([EmptyIdManifest EXCEPT
                                                   !.id = entity_id]))

\* C11: the id of a build, still in place when the deploy of it has returned Ok
C11_Witness ==
    /\ build_in.built
    /\ DOMAIN build_in.files # {}
    /\ pc = "done"
    /\ result.tag = "Ok"

\* C12, as claimed: the manifest FileData carries the serialized manifest with
\* the id field populated, the manifest's id as cid, and the MIME type
\* application/octet-stream.
C12_Original ==
    build_in.built =>
        /\ Published.ok
        /\ Published.entity.id = entity_id
        /\ ManifestFile.cid = entity_id
        /\ ManifestFile.mime_str = "application/octet-stream"

\* C12: the manifest FileData carries the serialized manifest with the id field
\* still empty (the bytes the id was computed from), the manifest's id as cid,
\* and the MIME type application/octet-stream.
C12_ManifestFileData ==
    build_in.built =>
        /\ Published.ok
        /\ Published.entity.id = ""
        /\ ManifestFile.bytes = SerializeEntity(EmptyIdManifest)
        /\ ManifestFile.cid = entity_id
        /\ ManifestFile.mime_str = "application/octet-stream"

\* C12: the manifest entry appended after the entries of two local files
C12_Witness ==
    /\ build_in.built
    /\ Len(deploy_data) = 3
    /\ ManifestFile.cid = entity_id
    /\ Published.entity.id = ""

\* no two entries of a content list share a path
NoDuplicatePaths(content) ==
    \A i, j \in 1..Len(content) :
        i # j => content[i].filename # content[j].filename

\* C13: the content list of a manifest built from a previous manifest without
\* duplicate paths has no two entries with the same path.
C13_NoDuplicatePaths ==
    (build_in.built /\ NoDuplicatePaths(build_in.entity.content))
    => NoDuplicatePaths(Published.entity.content)

\* C14: a rebuild from the manifest of the first build and the same local files
\* yields the content entries of that manifest, each as often as before, and
\* every local file keeps its id.
C14_RebuildKeepsContent ==
    pc = "rebuilt" =>
        /\ IsPermutation(Published.entity.content, build_in.entity.content)
        /\ \A path \in DOMAIN build_in.files :
              \E i \in 1..Len(Published.entity.content) :
                  /\ Published.entity.content[i].filename = path
                  /\ Published.entity.content[i].cid = get_cid(build_in.files[path])

\* the answer of the lookup leaves the candidate's pointers free to deploy
RemoteAgrees ==
    \/ Remote = <<>>
    \/ Len(Remote) = 1 /\ Remote[1].pointers = Candidate.pointers

\* C15: within one deploy call at most one POST /content/entities and at most
\* one lookup are issued; a POST is issued only after validation has passed; on
\* each failing path (no manifest, metadata mismatch, remote conflict, failed
\* lookup) the error is what deploy returns and nothing is submitted.
C15_SubmitOnceAfterValidation ==
    /\ Len(posted) <= 1
    /\ lookups <= 1
    /\ posted # <<>> =>
          /\ HasManifest
          /\ SceneCandidate =>
                /\ StringForm(Candidate.metadata.parcels) = Candidate.pointers
                /\ lookups = 1
                /\ Returned
                /\ RemoteAgrees
    /\ (DeployCalled /\ ~HasManifest) =>
          (pc = "done" /\ result.tag = "MissingSceneEntity" /\ lookups = 0)
    /\ (pc = "done" /\ result.tag \in {"MissingSceneEntity", "InvalidPointers"}) =>
          posted = <<>>
    /\ (lookups = 1 /\ Returned /\ ~RemoteAgrees) =>
          (pc = "done" /\ result.tag = "InvalidPointers" /\ posted = <<>>)
    /\ (pc = "done" /\ lookups = 1 /\ ~Returned) =>
          (result = RequestError /\ posted = <<>>)

\* C15: the lookup has failed, its error is the result, nothing was submitted
C15_Witness ==
    /\ pc = "done"
    /\ lookups = 1
    /\ ~Returned
    /\ result = RequestError
    /\ posted = <<>>

\* the lookup of caller c found the pointers unclaimed, or claimed by exactly
\* the pointers c deploys
SawNoConflict(c) ==
    LET files == calls[c].scene_files.files
        mine == ParseEntity(calls[c].deploy_data[1].bytes).entity
    IN  /\ calls[c].scene_files.returned
        /\ \/ files = <<>>
           \/ Len(files) = 1 /\ files[1].pointers = mine.pointers

\* C16: two deploy calls at once are not serialized. A call whose lookup found
\* no conflict issues its POST whatever the other call has made of the
\* authority since: the core never rejects it.
C16_NotSerialized ==
    \A c \in DOMAIN calls :
        SawNoConflict(c) =>
            /\ calls[c].pc \in {"submit", "done"}
            /\ calls[c].posts = 1
            /\ calls[c].result.tag \in {"none", "Ok", "RequestError"}

\* C16: both callers deploy onto the same pointers, both lookups found them
\* unclaimed, both POSTs were made and taken
C16_Witness ==
    /\ DOMAIN calls = Callers
    /\ \A c \in Callers :
          /\ calls[c].scene_files = Answer(<<>>)
          /\ calls[c].result = OkResult
          /\ ParseEntity(calls[c].deploy_data[1].bytes).entity.pointers = <<"0,0">>
    /\ calls["A"].entity_id # calls["B"].entity_id
    /\ Len(remote.posted) = 2

\* the ContentClient call made
Called(op) == client.op = op
Answered == client.response.ok

\* C17, as claimed: content_file_exists returns Ok(true) exactly when the HEAD
\* probe returned success, Ok(false) for every other outcome of the probe, and
\* never an error.
C17_Original ==
    Called("content_file_exists") =>
        /\ client.result.tag = "Ok"
        /\ client.result.value =
              (Answered /\ client.response.status \in 200..299)

\* C17: content_file_exists returns Ok(true) exactly when the HEAD probe was
\* answered with status 200, Ok(false) when it was answered with any other
\* status (not-found included), and the probe's error when no response came.
C17_ExistsIffStatusOk ==
    Called("content_file_exists") =>
        /\ Answered =>
              /\ client.result.tag = "Ok"
              /\ client.result.value = (client.response.status = 200)
        /\ ~Answered => client.result.tag = "Err"

\* C17: a probe answered with not-found gives Ok(false)
C17_Witness ==
    /\ Called("content_file_exists")
    /\ Answered
    /\ client.response.status = 404
    /\ client.result.tag = "Ok"
    /\ client.result.value = FALSE

\* the ids and availabilities of a list of entries, however its fields are named
Reported(entries) ==
    {<<entries[i].cid, entries[i].available>> : i \in 1..Len(entries)}
Returned_(entries) ==
    {<<entries[i].id, entries[i].available>> : i \in 1..Len(entries)}

\* the server was asked for a-cid, another-cid and reports the first available,
\* the second not
TwoCidsCase ==
    /\ Called("content_files_exists")
    /\ Answered
    /\ client.args = <<"a-cid", "another-cid">>
    /\ Reported(client.response.body) =
          {<<"a-cid", TRUE>>, <<"another-cid", FALSE>>}

\* C18, as claimed: for input [a-cid, another-cid] the result is the list
\* [{a-cid, true}, {another-cid, false}] in whichever order the server lists
\* its entries.
C18_Original ==
    TwoCidsCase =>
        /\ client.result.tag = "Ok"
        /\ client.result.value = <<[id |-> "a-cid", available |-> TRUE],
                                   [id |-> "another-cid", available |-> FALSE]>>

\* C18: content_files_exists returns the entries the server reported, each with
\* its id and availability, in the order the server lists them; for input
\* [a-cid, another-cid] these are the two entries {a-cid, true} and
\* {another-cid, false}, one per requested id.
C18_ServerListAsIs ==
    /\ (Called("content_files_exists") /\ Answered) =>
          /\ client.result.tag = "Ok"
          /\ Len(client.result.value) = Len(client.response.body)
          /\ \A i \in 1..Len(client.response.body) :
                /\ client.result.value[i].id = client.response.body[i].cid
                /\ client.result.value[i].available =
                      client.response.body[i].available
    /\ TwoCidsCase =>
          /\ Len(client.result.value) = 2
          /\ Returned_(client.result.value) =
                {<<"a-cid", TRUE>>, <<"another-cid", FALSE>>}

\* C18: the server lists another-cid before a-cid
C18_Witness ==
    /\ TwoCidsCase
    /\ client.response.body[1].cid = "another-cid"
    /\ client.result.tag = "Ok"
    /\ client.result.value[1].id = "another-cid"

\* the snapshot document the server answered with, read line by line: the
\* positions of its line feeds, and the characters between them
Body == client.response.body
Feeds == {i \in 1..Len(Body) : Body[i] = "\n"}
NumLines ==
    Cardinality(Feeds) + (IF Body # <<>> /\ Body[Len(Body)] # "\n" THEN 1 ELSE 0)
LineEnd(k) ==
    IF k = 0 THEN 0
    ELSE CHOOSE p \in Feeds \cup {Len(Body) + 1} :
            Cardinality({q \in Feeds : q < p}) = k - 1
DocLine(k) == SubSeq(Body, LineEnd(k - 1) + 1, LineEnd(k) - 1)

NotBlank(ch) == ch # " "

\* the first character of a line that is not a blank, "" when there is none
FirstNonBlank(line) ==
    IF SelectSeq(line, NotBlank) = <<>> THEN "" ELSE SelectSeq(line, NotBlank)[1]

\* the line is one whole record, blanks aside
WellFormed(line) ==
    LET t == SelectSeq(line, NotBlank)
    IN  Len(t) = 3 /\ t[1] = "{" /\ t[3] = "}" /\ t[2] \in {"e1", "e2"}

\* the records of the lines picked, in the order of the document
RecordsOf(picked) ==
    [n \in 1..Cardinality(picked) |->
        LET k == CHOOSE j \in picked :
                    Cardinality({i \in picked : i < j}) = n - 1
        IN  [entity_id |-> SelectSeq(DocLine(k), NotBlank)[2]]]

\* the lines of the document that begin with "{", and those whose first
\* character other than a blank is "{"
BraceFirst == {k \in 1..NumLines : DocLine(k) # <<>> /\ DocLine(k)[1] = "{"}
BraceAfterBlanks == {k \in 1..NumLines : FirstNonBlank(DocLine(k)) = "{"}

\* C19, as claimed: of a document whose record lines are all well-formed,
\* snapshot_entities parses exactly the lines whose first non-blank character
\* is "{" and returns one record per such line, in document order.
C19_Original ==
    (/\ Called("snapshot_entities")
     /\ Answered
     /\ \A k \in BraceAfterBlanks : WellFormed(DocLine(k)))
    => (/\ client.result.tag = "Ok"
        /\ client.result.value = RecordsOf(BraceAfterBlanks))

\* C19: of a document whose record lines are all well-formed, snapshot_entities
\* parses exactly the lines whose first character is "{" and returns one record
\* per such line, in document order; blank lines and lines that begin with any
\* other character, a blank included, are ignored.
C19_LinesBeginningWithBrace ==
    (/\ Called("snapshot_entities")
     /\ Answered
     /\ \A k \in BraceFirst : WellFormed(DocLine(k)))
    => (/\ client.result.tag = "Ok"
        /\ client.result.value = RecordsOf(BraceFirst))

\* C19: a header, a record behind a blank and a record: one record returned
C19_Witness ==
    /\ Called("snapshot_entities")
    /\ Answered
    /\ NumLines = 3
    /\ DocLine(1) = <<"#", "snapshot">>
    /\ DocLine(2) = <<" ", "{", "e1", "}">>
    /\ DocLine(3) = <<"{", "e2", "}">>
    /\ client.result.tag = "Ok"
    /\ client.result.value = <<[entity_id |-> "e2"]>>

\* C20: a line that begins with "{" and is not a whole record is skipped: the
\* call returns Ok with the records of the well-formed lines.
C20_MalformedLineSkipped ==
    (Called("snapshot_entities") /\ Answered)
    => (/\ client.result.tag = "Ok"
        /\ client.result.value =
              RecordsOf({k \in BraceFirst : WellFormed(DocLine(k))}))

\* the pieces of the model's paths whose text begins with 2dcl
BeginsWith2dcl(piece) == piece \in {"2dcl", "2dcl-old"}

\* the text of the path begins with "./2dcl", "/2dcl" or "2dcl"
TextPrefixed(path) ==
    \/ Len(path) >= 1 /\ BeginsWith2dcl(path[1])
    \/ Len(path) >= 2 /\ path[1] = "/" /\ BeginsWith2dcl(path[2])
    \/ Len(path) >= 3 /\ path[1] = "." /\ path[2] = "/" /\ BeginsWith2dcl(path[3])

\* the path lies in the directory "./2dcl", "/2dcl" or "2dcl", or is it
InDirectory2dcl(path) ==
    \/ Len(path) >= 1 /\ path[1] = "2dcl"
    \/ Len(path) >= 2 /\ path[1] = "/" /\ path[2] = "2dcl"
    \/ Len(path) >= 3 /\ path[1] = "." /\ path[2] = "/" /\ path[3] = "2dcl"

KeptByText(file) == ~TextPrefixed(file.filename)
KeptByDirectory(file) == ~InDirectory2dcl(file.filename)

\* the entries of the built content that come before those of the local files
CarriedForward ==
    SubSeq(Published.entity.content, 1,
           Len(Published.entity.content) - Cardinality(DOMAIN build_in.files))

\* C22, as claimed: the entries carried forward are the previous entries whose
\* path, as text, does not begin with "./2dcl", "/2dcl" or "2dcl", in their
\* order and unchanged.
C22_Original ==
    build_in.built =>
        CarriedForward = SelectSeq(build_in.entity.content, KeptByText)

\* C22: the entries carried forward are the previous entries whose path does
\* not have "./2dcl", "/2dcl" or "2dcl" as its leading components, in their
\* order and unchanged; every previous entry under such a directory is removed,
\* whatever its position; a path such as 2dcl-old/x is kept.
C22_TransientRemoved ==
    build_in.built =>
        CarriedForward = SelectSeq(build_in.entity.content, KeptByDirectory)

\* C22: of ./2dcl/a.png, 2dcl-old/x, /2dcl/x only the second is carried forward
C22_Witness ==
    /\ build_in.built
    /\ build_in.entity.id = "old2"
    /\ Len(build_in.entity.content) = 3
    /\ CarriedForward = <<ContentFile(P_2dclish, "cid-x")>>

\* the MIME type of the model's local paths, by their extension
MimeByExtension(path) ==
    IF path[Len(path)] = "png" /\ path[Len(path) - 1] = "."
    THEN "image/png" ELSE "application/octet-stream"

\* C23: build_entity_scene returns one FileData per local file, with the
\* content id of its bytes and image/png for a path ending in .png,
\* application/octet-stream otherwise, then the manifest entry as the last
\* element; the returned id is that last entry's cid.
C23_FileDataList ==
    build_in.built =>
        LET n == Cardinality(DOMAIN build_in.files)
        IN  /\ Len(deploy_data) = n + 1
            /\ \A path \in DOMAIN build_in.files :
                  Cardinality({i \in 1..n :
                      /\ deploy_data[i].bytes = build_in.files[path]
                      /\ deploy_data[i].cid = get_cid(build_in.files[path])
                      /\ deploy_data[i].mime_str = MimeByExtension(path)
                      /\ build_in.order[i] = path}) = 1
            /\ Published.ok
            /\ ManifestFile.mime_str = "application/octet-stream"
            /\ ManifestFile.cid = entity_id

\* C23: a .png file and a .txt file, then the manifest
C23_Witness ==
    /\ build_in.built
    /\ DOMAIN build_in.files = {P_png, P_txt}
    /\ Len(deploy_data) = 3
    /\ {deploy_data[1].mime_str, deploy_data[2].mime_str} =
          {"image/png", "application/octet-stream"}

\* C25: when the manifest deploy found carries no metadata, or metadata other
\* than Scene metadata, deploy makes no pointer check and no lookup: it goes
\* straight to assembling and submitting the envelope.
C25_NoSceneMetadataSubmits ==
    (DeployCalled /\ HasManifest /\ Candidate.metadata.tag # "scene")
    => (/\ lookups = 0
        /\ ~Returned
        /\ pc \in {"submit", "done"}
        /\ result.tag \in {"none", "Ok", "RequestError"}
        /\ Len(posted) = 1
        /\ posted[1] = form)

\* C25: a manifest without metadata whose pointers are 0,0 twice, submitted
C25_Witness ==
    /\ DeployCalled
    /\ HasManifest
    /\ Candidate.metadata.tag = "none"
    /\ Candidate.pointers = <<"0,0", "0,0">>
    /\ result.tag = "Ok"
    /\ lookups = 0

\* C24: the entity deploy validates is the manifest build_entity_scene made,
\* the one whose id is submitted, also when a local file holds the bytes of a
\* manifest; a manifest whose pointers contradict its Scene metadata is never
\* submitted.
C24_ValidatesOwnManifest ==
    (build_in.built /\ DeployCalled) =>
        /\ HasManifest
        /\ Candidate = Published.entity
        /\ (posted # <<>> /\ Published.entity.metadata.tag = "scene") =>
              StringForm(Published.entity.metadata.parcels)
                  = Published.entity.pointers

\* one cid=<hash> parameter per element, in list order, "&" between
\* consecutive parameters
OneParameterEach(content) ==
    [k \in 1..(3 * Len(content) - 1) |->
        IF k % 3 = 1 THEN "cid="
        ELSE IF k % 3 = 2 THEN content[(k + 1) \div 3]
        ELSE "&"]

\* C26: for every non-empty list of ContentIds, also one in which a later
\* element equals the first, the query string of content_files_exists is one
\* cid=<hash> parameter per element, in list order, with exactly one "&"
\* between consecutive parameters.
C26_QueryString ==
    (Called("content_files_exists") /\ client.args # <<>>) =>
        client.request = <<"GET", "/content/available-content/?">>
                             \o OneParameterEach(client.args)

\* the destination of the download, and the file system it started from
Destination == client.args.filename
Before == client.args.before

\* C21: download makes its request before it touches the file system: when the
\* request fails nothing has changed; when download returns Ok every parent
\* directory of the destination exists, the destination holds exactly the
\* fetched bytes, and no other file has changed.
C21_DownloadWritesFetchedBytes ==
    Called("download") =>
        /\ ~Answered => (client.result.tag = "Err" /\ fs = Before)
        /\ client.result.tag = "Ok" =>
              /\ Answered
              /\ \A j \in 1..(Len(Destination) - 1) :
                    SubSeq(Destination, 1, j) \in fs.dirs
              /\ Before.dirs \subseteq fs.dirs
              /\ DOMAIN fs.files = DOMAIN Before.files \cup {Destination}
              /\ fs.files[Destination] = client.response.body
              /\ \A f \in DOMAIN Before.files :
                    f # Destination => fs.files[f] = Before.files[f]

\* C21: a download to out/dir/file when neither out nor out/dir existed
C21_Witness ==
    /\ Called("download")
    /\ client.result.tag = "Ok"
    /\ Destination = <<"out", "dir", "file">>
    /\ Before = EmptyFs
    /\ fs.dirs = {<<"out">>, <<"out", "dir">>}
    /\ fs.files[Destination] = <<"b1", "b2">>

\* C27: whenever download returns an error the file system is as it was before
\* the call: no directory created, no file created or truncated.
C27_ErrorLeavesFsUntouched ==
    (Called("download") /\ client.result.tag = "Err") => fs = Before

\* C28: from current_level = 0 and an empty level_change_stack, after any
\* change_level, exit_level and teleport_command steps, current_level = 0 holds
\* exactly when level_change_stack is empty.
C28_LevelZeroIffStackEmpty ==
    (player.current_level = 0) <=> (player.level_change_stack = <<>>)

\* C29: after every move_camera_buffers step the frame times buffered by
\* each active recorder, the frame just pushed included, add up to at most
\* the recorder's target_duration, whatever the frame delta dt.
C29_BufferWithinTarget ==
    \A id \in DOMAIN recorders :
        Duration(recorders[id].frames) <= recorders[id].target_duration

\* C30: the tracking ids of the smuggler map are the tracking ids of
\* ActiveRecorders, after any steps of start_tracking_orthographic_camera
\* and clean_cameras.
C30_SameTrackingIds == DOMAIN smugglers = DOMAIN recorders

\* a camera was tracked and cleaned away after it was despawned (the first
\* tracker entity is gone), and another camera is still tracked
C30_Witness ==
    /\ cameras # CameraPool
    /\ trackers # {}
    /\ \A t \in trackers : t.entity # 1 /\ t.target \in cameras
    /\ DOMAIN recorders # {}

====
